---------------------------- MODULE Spec2Model ----------------------------
(***************************************************************************)
(* A model of the recipe-driven migration code of the repository:          *)
(*   - executeMigrationWithRetry / executeMigration / handleError of       *)
(*     src/tools/package-managers/npm-to-pnpm.md,                          *)
(*   - RecipeValidator of src/languages/python-to-typescript/validator.ts, *)
(*   - the identifier dispatchers runChecks / validateEnvironment /        *)
(*     executeStep and the textual rewrites of npm-to-pnpm.md.             *)
(*   - the setup scripts (discovery, lockfile conversion,                  *)
(*     createPackageJson) of npm-to-pnpm.md and src/unnamed/part_002.      *)
(*   - analyzePatterns of npm-to-pnpm.md.                                  *)
(* Each part has its own specification (SpecRetry, SpecValidate,           *)
(* SpecDispatch, SpecTransform, SpecSetup, SpecAnalyze) over the shared    *)
(* variables.                                                              *)
(***************************************************************************)
EXTENDS Integers, Sequences, FiniteSets, TLC

VARIABLES
  \* ---- executeMigrationWithRetry (npm-to-pnpm.md 618-643)
  mappings,     \* recipe.ai_agent_instructions.pattern_mappings.npm_to_pnpm
  lockfiles,    \* number of files the conversion loop of executeMigration visits
  rpc,          \* position in executeMigrationWithRetry
  retries,      \* let retries
  success,      \* let success
  attempts,     \* number of calls of executeMigration started so far
  mpc,          \* position inside the running executeMigration
  fileIdx,      \* index of the file the conversion loop is at
  error,        \* the error caught by the catch block
  outcomes,     \* what handleError decided, one entry per caught error
  lastHandled,  \* the last error handleError saw, with what it did
  final,        \* which of the two final messages was printed
  \* ---- RecipeValidator (validator.ts 61-240)
  recipe,            \* this.recipe
  validationErrors,  \* this.validationErrors
  vpc,               \* position in validateMigration
  migrationConfig,   \* the argument of validateMigration
  results,           \* const results of validateMigration
  ran,               \* the validations validateMigration has called, in order
  ret,               \* what each called validation returned
  lastCheck,         \* what the external checks of the last validation answered
  calls,             \* number of calls of validateMigration so far
  cursor,            \* validatePatternMigration: the entry and check of the loop
  patternErrors,     \* validatePatternMigration: const patternErrors
  \* ---- the textual rewrites (npm-to-pnpm.md 276-284, 467-492)
  kind,         \* which rewrite is applied to the text
  original,     \* the text before the first run
  content,      \* the text now
  previous,     \* the text before the last run
  passes,       \* number of runs of the rewrite so far
  tmappings,    \* the mappings the rewrite applies, in declared order
  \* ---- runChecks, executeStep, validateEnvironment (npm-to-pnpm.md)
  dispatcher,   \* which of the three is running
  ids,          \* the checks, actions or rules it was given
  dpos,         \* the index of the identifier it is at
  dstate,       \* running, returned, or thrown
  console,      \* the console lines written so far
  commands,     \* the commands given to execSync so far
  files,        \* the project files
  multiPackage, \* whether some discovery location has more than one path
  \* ---- the setup scripts (npm-to-pnpm.md 222-289, part_002 16-32)
  flow,         \* which of the two scripts runs
  sourceConfig, \* recipe.source.discovery.locations
  lpos,         \* the index of the location the discovery loop is at
  spc,          \* position in the script
  crashed,      \* whether an exception ended the script (at spc)
  cloned,       \* the locations cloneRepo returned for, in order
  scanned,      \* the locations scanPaths was called for, in order
  lockPresent,  \* whether package-lock.json exists in the working directory
  fsLog,        \* the files read and written, in order
  pydeps,       \* recipe.dependencies of the python-to-typescript recipe
  manifest,     \* the argument createPackageJson was called with
  cwd,          \* the clones the working directory lies in, outermost first
  \* ---- analyzePatterns (npm-to-pnpm.md 243-255)
  fileContent,  \* const fileContent
  patternList,  \* the parameter patterns, each pattern.type as a RegExp source
  apc,          \* position in analyzePatterns
  pidx,         \* index of the pattern the for loop is at
  lastIndex,    \* regex.lastIndex
  found         \* the "Found pattern" lines printed: <<pattern index, match.index>>

retryVars == <<mappings, lockfiles, rpc, retries, success, attempts, mpc,
               fileIdx, error, outcomes, lastHandled, final>>

validateVars == <<recipe, validationErrors, vpc, migrationConfig, results,
                  ran, ret, lastCheck, calls, cursor, patternErrors>>

transformVars == <<kind, original, content, previous, passes, tmappings>>

dispatchVars == <<dispatcher, ids, dpos, dstate, console, commands, files,
                  multiPackage>>

setupVars == <<flow, sourceConfig, lpos, spc, crashed, cloned, scanned,
               lockPresent, fsLog, pydeps, manifest, cwd>>

analyzeVars == <<fileContent, patternList, apc, pidx, lastIndex, found>>

vars == <<retryVars, validateVars, transformVars, dispatchVars, setupVars,
          analyzeVars>>

(***************************************************************************)
(* Bounds and program constants                                            *)
(***************************************************************************)
maxRetries == 3

MaxMappings == 2

MaxFiles == 2

\* The substring handleError looks for first (the built-in failure class).
LockfileInvalid == "pnpm-lock.yaml is invalid"

\* The patterns a recipe's npm_to_pnpm mappings may declare.
MappingPatterns == {"npm ci", "npm install"}

\* An error message is modelled by the set of the substrings it contains,
\* among those handleError can ask about.
Fragments == {LockfileInvalid} \cup MappingPatterns

Messages == SUBSET Fragments

includes(message, s) == s \in message

SeqsUpTo(S, n) == UNION {[1..k -> S] : k \in 0..n}

NoError == [none |-> TRUE]

\* The value of the catch variable while no error is caught: a message no
\* error has.
NothingCaught == {"<nothing caught>"}

(***************************************************************************)
(* handleError (npm-to-pnpm.md 587-615)                                    *)
(***************************************************************************)
\* Array.prototype.find: the index of the first mapping whose pattern occurs
\* in the message, 0 when there is none.
FindMapping_Last(message, maps) ==
  IF \E i \in DOMAIN maps : includes(message, maps[i])
  THEN CHOOSE i \in DOMAIN maps :
         /\ includes(message, maps[i])
         /\ \A j \in DOMAIN maps : includes(message, maps[j]) => j <= i
  ELSE 0

FindMapping(message, maps) ==
  IF \E i \in DOMAIN maps : includes(message, maps[i])
  THEN CHOOSE i \in DOMAIN maps :
         /\ includes(message, maps[i])
         /\ \A j \in DOMAIN maps : includes(message, maps[j]) => i <= j
  ELSE 0

\* importOk: whether execSync('pnpm import') returned without throwing.
handleError(message, maps, importOk) ==
  IF includes(message, LockfileInvalid) /\ importOk
  THEN [kind |-> "Resolved", idx |-> 0, importTried |-> TRUE]
  ELSE LET i == FindMapping(message, maps) IN
       IF i # 0
       THEN [kind |-> "Mapped", idx |-> i,
             importTried |-> includes(message, LockfileInvalid)]
       ELSE [kind |-> "Escalated", idx |-> 0,
             importTried |-> includes(message, LockfileInvalid)]

(***************************************************************************)
(* executeMigration (npm-to-pnpm.md 565-581): setupFromRecipe,             *)
(* analyzeWithRecipe, then per file convertLockfile and validateConversion,*)
(* then validateAll.  Every awaited call either returns or throws.         *)
(***************************************************************************)
\* A variant that goes to the final validation after the first file.
NextPhase_ValidateEarly(phase, idx, nfiles) ==
  CASE phase = "setup" -> [mpc |-> "analyze", idx |-> idx]
    [] phase = "analyze" ->
         IF nfiles > 0 THEN [mpc |-> "convert", idx |-> 1]
         ELSE [mpc |-> "validateAll", idx |-> idx]
    [] phase = "convert" -> [mpc |-> "validateConversion", idx |-> idx]
    [] phase = "validateConversion" -> [mpc |-> "validateAll", idx |-> idx]
    [] phase = "validateAll" -> [mpc |-> "returned", idx |-> idx]

NextPhase(phase, idx, nfiles) ==
  CASE phase = "setup" -> [mpc |-> "analyze", idx |-> idx]
    [] phase = "analyze" ->
         IF nfiles > 0 THEN [mpc |-> "convert", idx |-> 1]
         ELSE [mpc |-> "validateAll", idx |-> idx]
    [] phase = "convert" -> [mpc |-> "validateConversion", idx |-> idx]
    [] phase = "validateConversion" ->
         IF idx < nfiles THEN [mpc |-> "convert", idx |-> idx + 1]
         ELSE [mpc |-> "validateAll", idx |-> idx]
    [] phase = "validateAll" -> [mpc |-> "returned", idx |-> idx]

\* One awaited call of executeMigration returns.
MigrationStepOk ==
  /\ rpc = "exec"
  /\ LET n == NextPhase(mpc, fileIdx, lockfiles) IN
     /\ mpc' = n.mpc
     /\ fileIdx' = n.idx
     /\ IF n.mpc = "returned"
        THEN success' = TRUE /\ rpc' = "loop"
        ELSE UNCHANGED <<success, rpc>>
  /\ UNCHANGED <<mappings, lockfiles, retries, attempts, error, outcomes,
                 lastHandled, final>>

\* One awaited call of executeMigration throws: control goes to the catch.
MigrationStepThrow ==
  /\ rpc = "exec"
  /\ \E message \in Messages : error' = message
  /\ rpc' = "catch"
  /\ UNCHANGED <<mappings, lockfiles, retries, success, attempts, mpc,
                 fileIdx, outcomes, lastHandled, final>>

(***************************************************************************)
(* executeMigrationWithRetry (npm-to-pnpm.md 618-643)                      *)
(***************************************************************************)
\* A loop test that lets one more attempt through.
LoopTest_OffByOne == retries <= maxRetries /\ ~success

\* while (retries < maxRetries && !success)
LoopTest == retries < maxRetries /\ ~success

\* A variant in which a retry resumes at the phase that failed.
LoopEnter_ResumesFailedPhase ==
  /\ rpc = "loop"
  /\ LoopTest
  /\ rpc' = "exec"
  /\ attempts' = attempts + 1
  /\ IF retries = 0
     THEN mpc' = "setup" /\ fileIdx' = 0
     ELSE UNCHANGED <<mpc, fileIdx>>
  /\ UNCHANGED <<mappings, lockfiles, retries, success, error, outcomes,
                 lastHandled, final>>

\* The test holds: the body starts with a call of executeMigration.
LoopEnter ==
  /\ rpc = "loop"
  /\ LoopTest
  /\ rpc' = "exec"
  /\ attempts' = attempts + 1
  /\ mpc' = "setup"
  /\ fileIdx' = 0
  /\ UNCHANGED <<mappings, lockfiles, retries, success, error, outcomes,
                 lastHandled, final>>

\* A variant with the test of the final if inverted.
LoopExit_Inverted ==
  /\ rpc = "loop"
  /\ ~LoopTest
  /\ rpc' = "done"
  /\ final' = IF success THEN "manual" ELSE "success"
  /\ UNCHANGED <<mappings, lockfiles, retries, success, attempts, mpc,
                 fileIdx, error, outcomes, lastHandled>>

\* The test fails: the loop is left and one of the two messages is printed.
LoopExit ==
  /\ rpc = "loop"
  /\ ~LoopTest
  /\ rpc' = "done"
  /\ final' = IF ~success THEN "manual" ELSE "success"
  /\ UNCHANGED <<mappings, lockfiles, retries, success, attempts, mpc,
                 fileIdx, error, outcomes, lastHandled>>

\* The catch block of a variant that counts a retry only when handleError
\* found no remedy.
CatchError_CountsEscalationsOnly ==
  /\ rpc = "catch"
  /\ \E importOk \in BOOLEAN :
       LET o == handleError(error, mappings, importOk) IN
       /\ outcomes' = Append(outcomes, o.kind)
       /\ lastHandled' = [message |-> error, importOk |-> importOk, outcome |-> o]
       /\ retries' = IF o.kind = "Escalated" THEN retries + 1 ELSE retries
  /\ rpc' = "loop"
  /\ error' = NothingCaught
  /\ UNCHANGED <<mappings, lockfiles, success, attempts, mpc, fileIdx, final>>

\* The catch block of a variant that leaves the loop on an escalation.
CatchError_StopOnEscalation ==
  /\ rpc = "catch"
  /\ \E importOk \in BOOLEAN :
       LET o == handleError(error, mappings, importOk) IN
       /\ outcomes' = Append(outcomes, o.kind)
       /\ lastHandled' = [message |-> error, importOk |-> importOk, outcome |-> o]
       /\ retries' = IF o.kind = "Escalated" THEN maxRetries ELSE retries + 1
  /\ rpc' = "loop"
  /\ error' = NothingCaught
  /\ UNCHANGED <<mappings, lockfiles, success, attempts, mpc, fileIdx, final>>

\* The catch block: handleError(error, recipe); retries++.
CatchError ==
  /\ rpc = "catch"
  /\ \E importOk \in BOOLEAN :
       LET o == handleError(error, mappings, importOk) IN
       /\ outcomes' = Append(outcomes, o.kind)
       /\ lastHandled' = [message |-> error, importOk |-> importOk, outcome |-> o]
  /\ retries' = retries + 1
  /\ rpc' = "loop"
  /\ error' = NothingCaught
  /\ UNCHANGED <<mappings, lockfiles, success, attempts, mpc, fileIdx, final>>

InitRetryVars ==
  /\ mappings \in SeqsUpTo(MappingPatterns, MaxMappings)
  /\ lockfiles \in 0..MaxFiles
  /\ rpc = "loop"
  /\ retries = 0
  /\ success = FALSE
  /\ attempts = 0
  /\ mpc = "idle"
  /\ fileIdx = 0
  /\ error = NothingCaught
  /\ outcomes = <<>>
  /\ lastHandled = NoError
  /\ final = "none"

\* The retry loop is not running.
IdleRetry ==
  /\ mappings = <<>>
  /\ lockfiles = 0
  /\ rpc = "idle"
  /\ retries = 0
  /\ success = FALSE
  /\ attempts = 0
  /\ mpc = "idle"
  /\ fileIdx = 0
  /\ error = NothingCaught
  /\ outcomes = <<>>
  /\ lastHandled = NoError
  /\ final = "none"

(***************************************************************************)
(* RecipeValidator (validator.ts)                                          *)
(***************************************************************************)
MaxPatterns == 1

MaxPackages == 1

MaxCalls == 2

Absent == "absent"

\* The keys RecipeSchema declares for an entry of source.code_patterns, in
\* schema order (validator.ts 50-54).
PatternKeys ==
  <<"decorators", "type_hints", "list_comprehensions", "generators", "async_await">>

\* z.enum of PythonPattern.usage and of metadata.priority.
UsageEnum == {"common", "frequent", "occasional"}

PriorityEnum == {"low", "medium", "high"}

\* z.string().email(), on the addresses the model draws.
IsEmail(e) == e \in {"dev-team@company.com"}

\* The issues of one code_patterns entry, in schema key order.
RECURSIVE EntryIssues(_, _, _)
EntryIssues(entry, i, k) ==
  IF k > Len(PatternKeys) THEN <<>>
  ELSE LET key == PatternKeys[k]
           here == IF key \in DOMAIN entry /\ entry[key] \notin UsageEnum
                   THEN << <<"source.code_patterns", i - 1, key, "usage: Invalid enum value">> >>
                   ELSE <<>>
       IN here \o EntryIssues(entry, i, k + 1)

RECURSIVE PatternIssues(_, _)
PatternIssues(patterns, i) ==
  IF i > Len(patterns) THEN <<>>
  ELSE EntryIssues(patterns[i], i, 1) \o PatternIssues(patterns, i + 1)

\* RecipeSchema.parse in a variant that stops at the first issue.
SchemaIssues_FailFast(r) ==
  IF ~IsEmail(r.email) THEN << <<"metadata.contact.email: Invalid email">> >>
  ELSE IF r.priority \notin PriorityEnum
       THEN << <<"metadata.priority: Invalid enum value">> >>
  ELSE LET p == PatternIssues(r.code_patterns, 1)
       IN IF p = <<>> THEN <<>> ELSE <<p[1]>>

\* RecipeSchema.parse: zod reports every issue of the object, in schema order.
\* z.object strips the keys the schema does not declare (r.unknown, and
\* ai_agent_instructions with the patterns its conversion steps name,
\* r.step_patterns): they raise no issue.
SchemaIssues(r) ==
  (IF IsEmail(r.email) THEN <<>> ELSE << <<"metadata.contact.email: Invalid email">> >>)
  \o (IF r.priority \in PriorityEnum THEN <<>>
      ELSE << <<"metadata.priority: Invalid enum value">> >>)
  \o PatternIssues(r.code_patterns, 1)

\* validateRecipeStructure (70-80): [ok, errors]; this.validationErrors is
\* assigned only when the parse fails.
validateRecipeStructure(r, errs) ==
  LET issues == SchemaIssues(r) IN
  IF issues = <<>> THEN [ok |-> TRUE, errors |-> errs]
  ELSE [ok |-> FALSE, errors |-> issues]

\* What runTypeCheck may answer: it throws, or it reports coverage and anyCount.
Threw == [threw |-> TRUE]

TypeCheckResults ==
  {Threw} \cup [coverage : {84, 85}, anyCount : {0, 1}]

\* validateTypeConversion (83-111): the local typeValidation.errors and the
\* value returned.
validateTypeConversion_IgnoresAny(t) ==
  IF t = Threw THEN [ok |-> FALSE, errors |-> << <<"Type check failed">> >>]
  ELSE LET errs == IF t.coverage < 85
                   THEN << <<"Type coverage is below required 85%", t.coverage>> >>
                   ELSE <<>>
       IN [ok |-> errs = <<>>, errors |-> errs]

validateTypeConversion(t) ==
  IF t = Threw THEN [ok |-> FALSE, errors |-> << <<"Type check failed">> >>]
  ELSE LET errs ==
             (IF t.coverage < 85
              THEN << <<"Type coverage is below required 85%", t.coverage>> >>
              ELSE <<>>)
             \o (IF t.anyCount > 0
                 THEN << <<"Found 'any' types", t.anyCount>> >>
                 ELSE <<>>)
       IN [ok |-> Len(errs) = 0, errors |-> errs]

\* The pattern keys validatePatternMigration has a check for (122, 129).
CheckedKeys == <<"decorators", "list_comprehensions">>

CheckAnswers == {"valid", "invalid", "throws"}

\* The loop of validatePatternMigration (121-137): the first check at or after
\* check c of entry i that the recipe declares a pattern for; entry
\* Len(patterns) + 1 when there is none left.
RECURSIVE NextCall(_, _, _)
NextCall(patterns, i, c) ==
  IF i > Len(patterns) THEN [entry |-> Len(patterns) + 1, check |-> 1]
  ELSE IF c > Len(CheckedKeys) THEN NextCall(patterns, i + 1, 1)
  ELSE IF CheckedKeys[c] \in DOMAIN patterns[i] THEN [entry |-> i, check |-> c]
  ELSE NextCall(patterns, i, c + 1)

\* if (!check.valid) patternErrors.push(...)
PatternErrorsAfter(errors, key, answer) ==
  IF answer = "invalid" THEN Append(errors, <<key, "migration error">>)
  ELSE errors

\* What runTestCoverage may answer.
TestCoverageResults == {Threw} \cup [percentage : {79, 80}]

\* validateTestCoverage (143-159): the value returned and this.validationErrors.
validateTestCoverage(t, errs) ==
  IF t = Threw
  THEN [ok |-> FALSE, errors |-> Append(errs, <<"Test coverage check failed">>)]
  ELSE IF t.percentage < 80
  THEN [ok |-> FALSE,
        errors |-> Append(errs, <<"Test coverage is below required 80%", t.percentage>>)]
  ELSE [ok |-> TRUE, errors |-> errs]

\* validateDependencies (162-175): reading python_packages of a recipe without
\* source.dependencies, or a key of a packageJson without dependencies, throws.
RECURSIVE DependencyErrors(_, _, _)
DependencyErrors(pkgs, deps, i) ==
  IF i > Len(pkgs) THEN <<>>
  ELSE (IF pkgs[i].typescript_equivalent \in deps THEN <<>>
        ELSE << <<"Missing TypeScript equivalent for Python package", pkgs[i].name>> >>)
       \o DependencyErrors(pkgs, deps, i + 1)

validateDependencies(r, packageJson) ==
  IF ~r.dependencies.present THEN [threw |-> TRUE, ok |-> FALSE, errors |-> <<>>]
  ELSE IF Len(r.dependencies.python_packages) > 0 /\ ~packageJson.present
  THEN [threw |-> TRUE, ok |-> FALSE, errors |-> <<>>]
  ELSE LET errs == DependencyErrors(r.dependencies.python_packages,
                                    packageJson.dependencies, 1)
       IN [threw |-> FALSE, ok |-> Len(errs) = 0, errors |-> errs]

NoResults ==
  [recipeValid |-> FALSE, typeCheckPassed |-> FALSE, patternsPassed |-> FALSE,
   testsPassed |-> FALSE, dependenciesValid |-> FALSE, errors |-> <<>>]

Stages == <<"type", "pattern", "test", "deps">>

\* What a validation returned to validateMigration, if it has returned.
NoReturn == [returned |-> FALSE, value |-> FALSE]

Returned(v) == [returned |-> TRUE, value |-> v]

NoReturns == [s \in {"recipe", "type", "pattern", "test", "deps"} |-> NoReturn]

NoCheck == [stage |-> "none"]

\* packageJson: whether it has a dependencies object, and the keys of it.
PackageJsons ==
  {[present |-> FALSE, dependencies |-> {}]}
  \cup [present : {TRUE}, dependencies : SUBSET {"axios"}]

\* validateMigration (178-198) in a variant without the early return.
StartValidateMigration_NoEarlyReturn ==
  /\ vpc \in {"idle", "returned", "thrown"}
  /\ calls < MaxCalls
  /\ calls' = calls + 1
  /\ \E pj \in PackageJsons : migrationConfig' = [packageJson |-> pj]
  /\ LET v == validateRecipeStructure(recipe, validationErrors) IN
     /\ validationErrors' = v.errors
     /\ ret' = [NoReturns EXCEPT !["recipe"] = Returned(v.ok)]
     /\ IF v.ok
        THEN /\ results' = [NoResults EXCEPT !.recipeValid = TRUE]
             /\ vpc' = "type"
        ELSE /\ results' = [NoResults EXCEPT !.errors = v.errors]
             /\ vpc' = "type"
  /\ ran' = <<>>
  /\ lastCheck' = NoCheck
  /\ UNCHANGED <<recipe, cursor, patternErrors>>

\* validateMigration (178-198): the results object is created and the recipe
\* structure validated; an invalid recipe returns at once.
StartValidateMigration ==
  /\ vpc \in {"idle", "returned", "thrown"}
  /\ calls < MaxCalls
  /\ calls' = calls + 1
  /\ \E pj \in PackageJsons : migrationConfig' = [packageJson |-> pj]
  /\ LET v == validateRecipeStructure(recipe, validationErrors) IN
     /\ validationErrors' = v.errors
     /\ ret' = [NoReturns EXCEPT !["recipe"] = Returned(v.ok)]
     /\ IF v.ok
        THEN /\ results' = [NoResults EXCEPT !.recipeValid = TRUE]
             /\ vpc' = "type"
        ELSE /\ results' = [NoResults EXCEPT !.errors = v.errors]
             /\ vpc' = "returned"
  /\ ran' = <<>>
  /\ lastCheck' = NoCheck
  /\ UNCHANGED <<recipe, cursor, patternErrors>>

\* 2. Validate type conversion (200-206), in a variant that returns on failure.
TypeStage_HaltOnFailure ==
  /\ vpc = "type"
  /\ \E t \in TypeCheckResults :
       LET v == validateTypeConversion(t) IN
       /\ lastCheck' = [stage |-> "type", answer |-> t, errors |-> v.errors]
       /\ ret' = [ret EXCEPT !["type"] = Returned(v.ok)]
       /\ results' = [results EXCEPT
            !.typeCheckPassed = v.ok,
            !.errors = IF v.ok THEN @ ELSE Append(@, <<"Type validation failed">>)]
       /\ vpc' = IF v.ok THEN "pattern" ELSE "returned"
  /\ ran' = Append(ran, "type")
  /\ UNCHANGED <<recipe, validationErrors, migrationConfig, calls, cursor, patternErrors>>

\* 2. Validate type conversion (200-206).
TypeStage ==
  /\ vpc = "type"
  /\ \E t \in TypeCheckResults :
       LET v == validateTypeConversion(t) IN
       /\ lastCheck' = [stage |-> "type", answer |-> t, errors |-> v.errors]
       /\ ret' = [ret EXCEPT !["type"] = Returned(v.ok)]
       /\ results' = [results EXCEPT
            !.typeCheckPassed = v.ok,
            !.errors = IF v.ok THEN @ ELSE Append(@, <<"Type validation failed">>)]
  /\ ran' = Append(ran, "type")
  /\ vpc' = "pattern"
  /\ UNCHANGED <<recipe, validationErrors, migrationConfig, calls, cursor, patternErrors>>

\* 3. Validate pattern migration (208-215): validatePatternMigration is
\* called and runs up to its first awaited check.
PatternStage ==
  /\ vpc = "pattern"
  /\ ran' = Append(ran, "pattern")
  /\ cursor' = NextCall(recipe.code_patterns, 1, 1)
  /\ patternErrors' = <<>>
  /\ lastCheck' = [stage |-> "pattern", log |-> <<>>]
  /\ vpc' = "patternChecks"
  /\ UNCHANGED <<recipe, validationErrors, migrationConfig, results, ret, calls>>

\* One awaited check of validatePatternMigration (123-133) answers; a check
\* that throws is not caught, so validateMigration rejects.
PatternCheck ==
  /\ vpc = "patternChecks"
  /\ cursor.entry <= Len(recipe.code_patterns)
  /\ \E answer \in CheckAnswers :
       LET key == CheckedKeys[cursor.check] IN
       /\ lastCheck' = [lastCheck EXCEPT !.log =
            Append(@, [entry |-> cursor.entry, check |-> key, answer |-> answer])]
       /\ IF answer = "throws"
          THEN /\ vpc' = "thrown"
               /\ UNCHANGED <<cursor, patternErrors>>
          ELSE /\ patternErrors' = PatternErrorsAfter(patternErrors, key, answer)
               /\ cursor' = NextCall(recipe.code_patterns, cursor.entry, cursor.check + 1)
               /\ UNCHANGED vpc
  /\ UNCHANGED <<recipe, validationErrors, migrationConfig, results, ran, ret, calls>>

\* validatePatternMigration returns (139) and validateMigration records it.
PatternReturn ==
  /\ vpc = "patternChecks"
  /\ cursor.entry > Len(recipe.code_patterns)
  /\ LET ok == Len(patternErrors) = 0 IN
     /\ ret' = [ret EXCEPT !["pattern"] = Returned(ok)]
     /\ results' = [results EXCEPT
          !.patternsPassed = ok,
          !.errors = IF ok THEN @
                     ELSE Append(@, <<"Pattern migration validation failed">>)]
  /\ vpc' = "test"
  /\ UNCHANGED <<recipe, validationErrors, migrationConfig, ran, lastCheck,
                 calls, cursor, patternErrors>>

\* 4. Validate test coverage (217-223); the value goes to the local constant
\* testsPassed, results.testsPassed is not assigned.
TestStage ==
  /\ vpc = "test"
  /\ \E t \in TestCoverageResults :
       LET v == validateTestCoverage(t, validationErrors) IN
       /\ lastCheck' = [stage |-> "test", answer |-> t]
       /\ validationErrors' = v.errors
       /\ ret' = [ret EXCEPT !["test"] = Returned(v.ok)]
       /\ results' = [results EXCEPT
            !.errors = IF v.ok THEN @
                       ELSE Append(@, <<"Test coverage validation failed">>)]
  /\ ran' = Append(ran, "test")
  /\ vpc' = "deps"
  /\ UNCHANGED <<recipe, migrationConfig, calls, cursor, patternErrors>>

\* 5. Validate dependencies (225-233) and return results.
DepsStage ==
  /\ vpc = "deps"
  /\ LET v == validateDependencies(recipe, migrationConfig.packageJson) IN
     /\ lastCheck' = [stage |-> "deps", errors |-> v.errors]
     /\ IF v.threw
        THEN /\ vpc' = "thrown"
             /\ UNCHANGED <<ret, results>>
        ELSE /\ vpc' = "returned"
             /\ ret' = [ret EXCEPT !["deps"] = Returned(v.ok)]
             /\ results' = [results EXCEPT
                  !.dependenciesValid = v.ok,
                  !.errors = IF v.ok THEN @
                             ELSE Append(@, <<"Dependency validation failed">>)]
  /\ ran' = Append(ran, "deps")
  /\ UNCHANGED <<recipe, validationErrors, migrationConfig, calls, cursor, patternErrors>>

\* The recipes the model draws: source.dependencies may be missing (the schema
\* does not ask for it), and so may a package's typescript_equivalent.
\* The entries of source.code_patterns:
PatternEntries ==
  { [decorators |-> "common"],
    [decorators |-> "common", list_comprehensions |-> "frequent"],
    [type_hints |-> "common"],
    [type_hints |-> "partial"] }

Packages ==
  { [name |-> "requests", typescript_equivalent |-> "axios"],
    [name |-> "numpy", typescript_equivalent |-> "undefined"] }

\* Keys a recipe may carry that RecipeSchema does not declare.
UnknownKeys == {"metadata.estimated-downtime"}

\* code_patterns keys that the actions of ai_agent_instructions.conversion_steps
\* may name.
StepPatterns == {"generators"}

AllRecipes ==
  [ email : {"dev-team@company.com", "dev-team"},
    priority : {"medium", "urgent"},
    code_patterns : SeqsUpTo(PatternEntries, MaxPatterns),
    dependencies :
      {[present |-> FALSE, python_packages |-> <<>>]}
      \cup [present : {TRUE}, python_packages : SeqsUpTo(Packages, MaxPackages)],
    unknown : SUBSET UnknownKeys,
    step_patterns : SUBSET StepPatterns ]

\* The recipes with undeclared keys are drawn with at most one code_patterns
\* entry and no python package: the schema reads neither.
\* The recipe the repository ships for python to typescript (part_003).
ShippedRecipe ==
  [ email |-> "dev-team@company.com",
    priority |-> "medium",
    code_patterns |->
      << [decorators |-> "common"], [type_hints |-> "partial"],
         [list_comprehensions |-> "frequent"], [generators |-> "occasional"],
         [async_await |-> "common"] >>,
    dependencies |->
      [present |-> TRUE,
       python_packages |->
         << [name |-> "pandas", typescript_equivalent |-> "apache-arrow"],
            [name |-> "requests", typescript_equivalent |-> "axios"],
            [name |-> "flask", typescript_equivalent |-> "express"],
            [name |-> "pytest", typescript_equivalent |-> "jest"] >>],
    unknown |-> {"metadata.estimated-downtime"},
    step_patterns |-> {} ]

Recipes ==
  {ShippedRecipe} \cup
  { r \in AllRecipes :
      (r.unknown # {} \/ r.step_patterns # {}) =>
         /\ Len(r.code_patterns) <= 1
         /\ r.dependencies = [present |-> TRUE, python_packages |-> <<>>] }

\* new RecipeValidator(recipe)
InitValidateVars ==
  /\ recipe \in Recipes
  /\ validationErrors = <<>>
  /\ vpc = "idle"
  /\ migrationConfig = Absent
  /\ results = NoResults
  /\ ran = <<>>
  /\ ret = NoReturns
  /\ lastCheck = NoCheck
  /\ calls = 0
  /\ cursor = [entry |-> 1, check |-> 1]
  /\ patternErrors = <<>>

\* No validator has been constructed.
IdleValidate ==
  /\ recipe = Absent
  /\ validationErrors = <<>>
  /\ vpc = "none"
  /\ migrationConfig = Absent
  /\ results = NoResults
  /\ ran = <<>>
  /\ ret = NoReturns
  /\ lastCheck = NoCheck
  /\ calls = 0
  /\ cursor = [entry |-> 1, check |-> 1]
  /\ patternErrors = <<>>


(***************************************************************************)
(* The textual rewrites of npm-to-pnpm.md.  A text is a sequence of        *)
(* one-character strings, so that a replacement can produce a new match.   *)
(***************************************************************************)
MaxFrags == 2

MaxPasses == 2

\* /npm run /g (471, 487)
NpmRun ==
  <<"n", "p", "m", " ", "r", "u", "n", " ">>

\* 'pnpm ' (471, 487)
Pnpm ==
  <<"p", "n", "p", "m", " ">>

\* /npm start/g (473)
NpmStart ==
  <<"n", "p", "m", " ", "s", "t", "a", "r", "t">>

\* 'pnpm start' (473)
PnpmStart ==
  <<"p", "n", "p", "m", " ", "s", "t", "a", "r", "t">>

\* /npm ci/g (485)
NpmCi ==
  <<"n", "p", "m", " ", "c", "i">>

\* 'pnpm install --frozen-lockfile' (485)
PnpmInstallFrozen ==
  <<"p", "n", "p", "m", " ", "i", "n", "s", "t", "a", "l", "l", " ", "-",
    "-", "f", "r", "o", "z", "e", "n", "-", "l", "o", "c", "k", "f", "i",
    "l", "e">>

\* /npm install/g (486)
NpmInstall ==
  <<"n", "p", "m", " ", "i", "n", "s", "t", "a", "l", "l">>

\* 'pnpm install' (486)
PnpmInstall ==
  <<"p", "n", "p", "m", " ", "i", "n", "s", "t", "a", "l", "l">>

\* a script name
Build ==
  <<"b", "u", "i", "l", "d">>

\* a shell connective
AndAnd ==
  <<" ", "&", "&", " ">>

\* a command no rewrite names
NpmTest ==
  <<"n", "p", "m", " ", "t", "e", "s", "t">>

\* a single letter
LetterP ==
  <<"p">>

\* the script of the end-to-end example
ExampleScript ==
  <<"n", "p", "m", " ", "r", "u", "n", " ", "b", "u", "i", "l", "d", " ",
    "&", "&", " ", "n", "p", "m", " ", "t", "e", "s", "t">>

\* what the example is to become
ExampleResult ==
  <<"p", "n", "p", "m", " ", "b", "u", "i", "l", "d", " ", "&", "&", " ",
    "n", "p", "m", " ", "t", "e", "s", "t">>

\* Whether pat occurs in s at position i.
MatchAt(s, pat, i) ==
  /\ i + Len(pat) - 1 <= Len(s)
  /\ SubSeq(s, i, i + Len(pat) - 1) = pat

\* String.prototype.replace with a global regular expression of literal
\* characters: matches are taken left to right, without overlap, and the text
\* put in is not scanned again.
RECURSIVE ReplaceFrom(_, _, _, _)
ReplaceFrom(s, pat, rep, i) ==
  LET hits == {j \in i..Len(s) : MatchAt(s, pat, j)} IN
  IF hits = {} THEN SubSeq(s, i, Len(s))
  ELSE LET j == CHOOSE h \in hits : \A k \in hits : h <= k
       IN SubSeq(s, i, j - 1) \o rep \o ReplaceFrom(s, pat, rep, j + Len(pat))

\* A replace without the g flag: only the first match is replaced.
ReplaceFirst(s, pat, rep, i) ==
  LET hits == {j \in i..Len(s) : MatchAt(s, pat, j)} IN
  IF hits = {} THEN SubSeq(s, i, Len(s))
  ELSE LET j == CHOOSE h \in hits : \A k \in hits : h <= k
       IN SubSeq(s, i, j - 1) \o rep \o SubSeq(s, j + Len(pat), Len(s))

ReplaceAll_FirstOnly(s, pat, rep) == ReplaceFirst(s, pat, rep, 1)

ReplaceAll(s, pat, rep) == ReplaceFrom(s, pat, rep, 1)

\* executeStep, case 'replace-npm-run-with-pnpm' (471-473), on one script.
ScriptRewrite(s) ==
  ReplaceAll(ReplaceAll(s, NpmRun, Pnpm), NpmStart, PnpmStart)

\* executeStep, case 'adjust-ci-scripts' (485-487), on one CI file.
CiRewrite(s) ==
  ReplaceAll(ReplaceAll(ReplaceAll(s, NpmCi, PnpmInstallFrozen),
                        NpmInstall, PnpmInstall),
             NpmRun, Pnpm)

\* convertLockfile (276-284): the mappings are applied one after the other,
\* each to the whole text the previous one left.
RECURSIVE convertLockfileFrom(_, _, _)
convertLockfileFrom(text, maps, k) ==
  IF k > Len(maps) THEN text
  ELSE convertLockfileFrom(ReplaceAll(text, maps[k].pattern, maps[k].pnpm), maps, k + 1)

convertLockfile(npmLockContent, maps) == convertLockfileFrom(npmLockContent, maps, 1)

\* The mappings the two cases of executeStep apply, as mapping lists.
ScriptMappings ==
  << [pattern |-> NpmRun, pnpm |-> Pnpm], [pattern |-> NpmStart, pnpm |-> PnpmStart] >>

CiMappings ==
  << [pattern |-> NpmCi, pnpm |-> PnpmInstallFrozen],
     [pattern |-> NpmInstall, pnpm |-> PnpmInstall],
     [pattern |-> NpmRun, pnpm |-> Pnpm] >>

\* The texts the model draws: up to MaxFrags pieces, and the example script.
Pieces == {NpmRun, NpmStart, NpmCi, NpmInstall, NpmTest, Build, AndAnd, LetterP}

RECURSIVE Concat(_)
Concat(ss) == IF ss = <<>> THEN <<>> ELSE Head(ss) \o Concat(Tail(ss))

Inputs == {Concat(ps) : ps \in SeqsUpTo(Pieces, MaxFrags)} \cup {ExampleScript}

\* The mapping lists a recipe may declare for convertLockfile.
LockfileMappings ==
  { [pattern |-> NpmRun, pnpm |-> Pnpm],
    [pattern |-> NpmCi, pnpm |-> PnpmInstallFrozen],
    [pattern |-> NpmInstall, pnpm |-> PnpmInstall] }

\* One run of the script rewrite over the text.
ApplyScriptRewrite ==
  /\ kind = "script"
  /\ passes < MaxPasses
  /\ previous' = content
  /\ content' = ScriptRewrite(content)
  /\ passes' = passes + 1
  /\ UNCHANGED <<kind, original, tmappings>>

\* One run of the CI rewrite over the text.
ApplyCiRewrite ==
  /\ kind = "ci"
  /\ passes < MaxPasses
  /\ previous' = content
  /\ content' = CiRewrite(content)
  /\ passes' = passes + 1
  /\ UNCHANGED <<kind, original, tmappings>>

\* One call of convertLockfile on the text, with the recipe's mappings.
ApplyConvertLockfile ==
  /\ kind = "lockfile"
  /\ passes < MaxPasses
  /\ previous' = content
  /\ content' = convertLockfile(content, tmappings)
  /\ passes' = passes + 1
  /\ UNCHANGED <<kind, original, tmappings>>

InitTransformVars ==
  /\ kind \in {"script", "ci", "lockfile"}
  /\ original \in Inputs
  /\ content = original
  /\ previous = original
  /\ passes = 0
  /\ tmappings \in IF kind = "lockfile" THEN SeqsUpTo(LockfileMappings, MaxMappings)
                   ELSE {IF kind = "script" THEN ScriptMappings ELSE CiMappings}

\* No text is being rewritten.
IdleTransform ==
  /\ kind = "none"
  /\ original = <<>>
  /\ content = <<>>
  /\ previous = <<>>
  /\ passes = 0
  /\ tmappings = <<>>

(***************************************************************************)
(* The identifier dispatchers of npm-to-pnpm.md: runChecks (297-334),      *)
(* executeStep (422-509) and validateEnvironment (525-554).  Each handles  *)
(* the identifiers of a recipe list one after the other; execSync either   *)
(* returns or throws, and nothing catches what it throws except where      *)
(* stated.                                                                 *)
(***************************************************************************)
MaxIds == 2

\* What handling one identifier does: the console lines written, the commands
\* given to execSync, the files afterwards and whether an exception escaped.
Effect(lines, cmds, fs, threw) ==
  [console |-> lines, commands |-> cmds, files |-> fs, threw |-> threw]

KnownChecks ==
  {"valid-lockfile", "consistent-versions", "unit-tests-pass",
   "ci-pipeline-works", "install-speed", "disk-usage"}

\* (variant: the default case does nothing)
runChecks_SilentDefault(check, fs, multi, execOk) ==
  CASE check = "valid-lockfile" ->
         Effect(<< <<"log", "Verifying pnpm-lock.yaml...">> >>, <<>>, fs, FALSE)
    [] check = "consistent-versions" ->
         Effect(<< <<"log", "Checking for consistent dependency versions...">> >>,
                <<>>, fs, FALSE)
    [] check = "unit-tests-pass" ->
         Effect(<< <<"log", "Running unit tests...">> >>, <<"pnpm test">>, fs, ~execOk)
    [] check = "ci-pipeline-works" ->
         Effect(<< <<"log", "Simulating CI pipeline...">> >>, <<>>, fs, FALSE)
    [] check = "install-speed" ->
         Effect(<< <<"log", "Measuring installation speed...">> >>
                  \o (IF execOk THEN << <<"log", "Installation time">> >> ELSE <<>>),
                <<"pnpm install">>, fs, ~execOk)
    [] check = "disk-usage" ->
         Effect(<< <<"log", "Measuring disk usage...">> >>, <<>>, fs, FALSE)
    [] OTHER -> Effect(<<>>, <<>>, fs, FALSE)

\* runChecks (297-334), one iteration of its loop.
runChecks(check, fs, multi, execOk) ==
  CASE check = "valid-lockfile" ->
         Effect(<< <<"log", "Verifying pnpm-lock.yaml...">> >>, <<>>, fs, FALSE)
    [] check = "consistent-versions" ->
         Effect(<< <<"log", "Checking for consistent dependency versions...">> >>,
                <<>>, fs, FALSE)
    [] check = "unit-tests-pass" ->
         Effect(<< <<"log", "Running unit tests...">> >>, <<"pnpm test">>, fs, ~execOk)
    [] check = "ci-pipeline-works" ->
         Effect(<< <<"log", "Simulating CI pipeline...">> >>, <<>>, fs, FALSE)
    [] check = "install-speed" ->
         Effect(<< <<"log", "Measuring installation speed...">> >>
                  \o (IF execOk THEN << <<"log", "Installation time">> >> ELSE <<>>),
                <<"pnpm install">>, fs, ~execOk)
    [] check = "disk-usage" ->
         Effect(<< <<"log", "Measuring disk usage...">> >>, <<>>, fs, FALSE)
    [] OTHER -> Effect(<< <<"warn", "Unknown check", check>> >>, <<>>, fs, FALSE)

KnownRules == {"ensure-valid-lockfile", "verify-tests-pass", "check-install-time"}

\* validateEnvironment (525-554).
validateEnvironment(rule, fs, multi, execOk) ==
  CASE rule = "ensure-valid-lockfile" ->
         Effect(<< <<"log", "Ensuring valid pnpm-lock.yaml...">> >>
                  \o (IF execOk THEN <<>>
                      ELSE << <<"error", "Invalid pnpm-lock.yaml detected.">> >>),
                <<"pnpm ls">>, fs, ~execOk)
    [] rule = "verify-tests-pass" ->
         Effect(<< <<"log", "Verifying that tests pass...">> >>, <<"pnpm test">>,
                fs, ~execOk)
    [] rule = "check-install-time" ->
         Effect(<< <<"log", "Checking installation time...">> >>
                  \o (IF execOk THEN << <<"log", "Installation time">> >> ELSE <<>>),
                <<"pnpm install">>, fs, ~execOk)
    [] OTHER -> Effect(<< <<"warn", "Unknown validation rule", rule>> >>, <<>>, fs, FALSE)

KnownActions ==
  {"identify-npm-specific-lock-elements", "map-equivalents-in-pnpm-lock",
   "install-pnpm-globally", "create-pnpm-workspace",
   "configure-strict-peer-dependencies", "translate-npm-lock-to-pnpm",
   "clean-legacy-artifacts", "replace-npm-run-with-pnpm", "adjust-ci-scripts",
   "run-tests", "check-performance", "validate-metrics"}

\* The CI files 'adjust-ci-scripts' looks at (481).
CiFiles == {".github/workflows/ci.yml", ".gitlab-ci.yml"}

\* executeStep (422-509), one iteration of its loop.  multi: whether some
\* discovery location has more than one path (442).
executeStep(action, fs, multi, execOk) ==
  CASE action = "identify-npm-specific-lock-elements" ->
         Effect(<< <<"log", "Identifying npm-specific elements...">> >>, <<>>, fs, FALSE)
    [] action = "map-equivalents-in-pnpm-lock" ->
         Effect(<< <<"log", "Mapping npm lock elements...">> >>, <<>>, fs, FALSE)
    [] action = "install-pnpm-globally" ->
         Effect(<< <<"log", "Installing pnpm globally...">> >>,
                <<"npm install -g pnpm">>, fs, ~execOk)
    [] action = "create-pnpm-workspace" ->
         Effect(<< <<"log", "Creating pnpm workspace...">> >>, <<>>,
                IF ~fs.workspace /\ multi THEN [fs EXCEPT !.workspace = TRUE] ELSE fs,
                FALSE)
    [] action = "configure-strict-peer-dependencies" ->
         Effect(<< <<"log", "Configuring strict peer dependencies...">> >>,
                <<"pnpm config set strict-peer-dependencies true">>, fs, ~execOk)
    [] action = "translate-npm-lock-to-pnpm" ->
         Effect(<< <<"log", "Translating npm lockfile to pnpm...">> >>,
                <<"pnpm import">>, fs, ~execOk)
    [] action = "clean-legacy-artifacts" ->
         Effect(<< <<"log", "Cleaning up legacy npm artifacts...">> >>,
                IF fs.nodeModules THEN <<"npx rimraf node_modules">> ELSE <<>>,
                [fs EXCEPT !.lock = FALSE,
                           !.nodeModules = IF execOk THEN FALSE ELSE @],
                fs.nodeModules /\ ~execOk)
    [] action = "replace-npm-run-with-pnpm" ->
         IF fs.packageJson.state # "ok"
         THEN Effect(<< <<"log", "Replacing 'npm run' with 'pnpm' in scripts...">> >>,
                     <<>>, fs, TRUE)
         ELSE Effect(<< <<"log", "Replacing 'npm run' with 'pnpm' in scripts...">> >>,
                     <<>>,
                     [fs EXCEPT !.packageJson.script = ScriptRewrite(@)],
                     FALSE)
    [] action = "adjust-ci-scripts" ->
         Effect(<< <<"log", "Adjusting CI scripts...">> >>, <<>>,
                [fs EXCEPT !.ci = [f \in CiFiles |->
                   IF fs.ci[f].exists
                   THEN [exists |-> TRUE, text |-> CiRewrite(fs.ci[f].text)]
                   ELSE fs.ci[f]]],
                FALSE)
    [] action = "run-tests" ->
         Effect(<< <<"log", "Running tests...">> >>, <<"pnpm test">>, fs, ~execOk)
    [] action = "check-performance" ->
         Effect(<< <<"log", "Checking performance...">> >>, <<>>, fs, FALSE)
    [] action = "validate-metrics" ->
         Effect(<< <<"log", "Validating metrics...">> >>, <<>>, fs, FALSE)
    [] OTHER -> Effect(<< <<"warn", "Unknown action", action>> >>, <<>>, fs, FALSE)

\* The effect of one iteration is applied; an exception ends the dispatcher.
Apply(e) ==
  /\ console' = console \o e.console
  /\ commands' = commands \o e.commands
  /\ files' = e.files
  /\ IF e.threw
     THEN dstate' = "thrown" /\ UNCHANGED dpos
     ELSE dpos' = dpos + 1 /\ UNCHANGED dstate
  /\ UNCHANGED <<dispatcher, ids, multiPackage>>

\* for (const check of checks) { switch (check) ... } (298-333)
RunChecksStep ==
  /\ dispatcher = "runChecks"
  /\ dstate = "running"
  /\ dpos <= Len(ids)
  /\ \E execOk \in BOOLEAN : Apply(runChecks(ids[dpos], files, multiPackage, execOk))

\* for (const action of step.actions) { switch (action) ... } (424-508)
ExecuteStepAction ==
  /\ dispatcher = "executeStep"
  /\ dstate = "running"
  /\ dpos <= Len(ids)
  /\ \E execOk \in BOOLEAN : Apply(executeStep(ids[dpos], files, multiPackage, execOk))

\* for (const rule of validationRules) validateEnvironment(rule) (556-559)
ValidateEnvironmentStep ==
  /\ dispatcher = "validateEnvironment"
  /\ dstate = "running"
  /\ dpos <= Len(ids)
  /\ \E execOk \in BOOLEAN :
       Apply(validateEnvironment(ids[dpos], files, multiPackage, execOk))

\* The list is exhausted: the dispatcher returns (nothing: it is void).
DispatchReturn ==
  /\ dstate = "running"
  /\ dpos > Len(ids)
  /\ dstate' = "returned"
  /\ UNCHANGED <<dispatcher, ids, dpos, console, commands, files, multiPackage>>

\* The identifiers the model draws: some with a handler, one without.
CheckIds == {"valid-lockfile", "unit-tests-pass", "install-speed", "type-completeness"}

RuleIds == {"ensure-valid-lockfile", "verify-tests-pass", "ensure-no-any-types"}

ActionIds ==
  {"install-pnpm-globally", "create-pnpm-workspace", "clean-legacy-artifacts",
   "replace-npm-run-with-pnpm", "adjust-ci-scripts", "translate-syntax"}

IdsOf(d) ==
  CASE d = "runChecks" -> CheckIds
    [] d = "validateEnvironment" -> RuleIds
    [] d = "executeStep" -> ActionIds

KnownIds(d) ==
  CASE d = "runChecks" -> KnownChecks
    [] d = "validateEnvironment" -> KnownRules
    [] d = "executeStep" -> KnownActions

\* The project files the model draws.
NoFiles ==
  [packageJson |-> [state |-> "absent", script |-> <<>>],
   ci |-> [f \in CiFiles |-> [exists |-> FALSE, text |-> <<>>]],
   lock |-> FALSE, nodeModules |-> FALSE, workspace |-> FALSE]

ProjectFiles ==
  [packageJson : {[state |-> "absent", script |-> <<>>],
                  [state |-> "invalid", script |-> <<>>],
                  [state |-> "ok", script |-> ExampleScript],
                  [state |-> "ok", script |-> NpmStart]},
   ci : {[f \in CiFiles |-> [exists |-> FALSE, text |-> <<>>]],
         [f \in CiFiles |-> IF f = ".gitlab-ci.yml"
                             THEN [exists |-> TRUE, text |-> NpmCi]
                             ELSE [exists |-> FALSE, text |-> <<>>]]},
   lock : BOOLEAN, nodeModules : BOOLEAN, workspace : {FALSE}]

InitDispatchVars ==
  /\ dispatcher \in {"runChecks", "validateEnvironment", "executeStep"}
  /\ ids \in SeqsUpTo(IdsOf(dispatcher), MaxIds)
  /\ dpos = 1
  /\ dstate = "running"
  /\ console = <<>>
  /\ commands = <<>>
  /\ files \in IF dispatcher = "executeStep" THEN ProjectFiles ELSE {NoFiles}
  /\ multiPackage \in IF dispatcher = "executeStep" THEN BOOLEAN ELSE {FALSE}

\* No dispatcher is running.
IdleDispatch ==
  /\ dispatcher = "none"
  /\ ids = <<>>
  /\ dpos = 1
  /\ dstate = "idle"
  /\ console = <<>>
  /\ commands = <<>>
  /\ files = NoFiles
  /\ multiPackage = FALSE

(***************************************************************************)
(* The setup scripts: the discovery loop (npm-to-pnpm.md 222-233, part_002 *)
(* 16-24), followed by the lockfile conversion (npm-to-pnpm.md 286-289) or *)
(* by createPackageJson (part_002 26-32).  They are top-level code: an     *)
(* exception ends the script.                                              *)
(***************************************************************************)
MaxLocations == 2

LocationTypes == {"git", "archive"}

NoManifest == [created |-> FALSE, dependencies |-> <<>>]

\* The argument of createPackageJson (part_002 28-32): one single-key object
\* per python package, keyed by its typescript_equivalent; a package without
\* one gives the key "undefined".
createPackageJson(dependencies) ==
  [created |-> TRUE,
   dependencies |-> [i \in DOMAIN dependencies |->
                       [key |-> dependencies[i].typescript_equivalent,
                        value |-> "latest"]]]

\* location.type === 'git' and cloneRepo returns (225): the script goes on
\* to scanPaths (231); npm-to-pnpm.md changes into the clone first (230) and
\* never changes back.
CloneOk ==
  /\ spc = "discovery"
  /\ ~crashed
  /\ lpos <= Len(sourceConfig)
  /\ sourceConfig[lpos] = "git"
  /\ cloned' = Append(cloned, lpos)
  /\ scanned' = Append(scanned, lpos)
  /\ IF flow = "npm-to-pnpm" THEN lockPresent' \in BOOLEAN ELSE UNCHANGED lockPresent
  /\ cwd' = IF flow = "npm-to-pnpm" THEN Append(cwd, lpos) ELSE cwd
  /\ lpos' = lpos + 1
  /\ UNCHANGED <<flow, sourceConfig, spc, crashed, fsLog, pydeps, manifest>>

\* execSync('git clone ...') throws (213): nothing catches it.
CloneFails ==
  /\ spc = "discovery"
  /\ ~crashed
  /\ lpos <= Len(sourceConfig)
  /\ sourceConfig[lpos] = "git"
  /\ crashed' = TRUE
  /\ UNCHANGED <<flow, sourceConfig, lpos, spc, cloned, scanned, lockPresent,
                 fsLog, pydeps, manifest,
                 cwd>>

\* A location of another type is passed over (224).
SkipLocation ==
  /\ spc = "discovery"
  /\ ~crashed
  /\ lpos <= Len(sourceConfig)
  /\ sourceConfig[lpos] # "git"
  /\ lpos' = lpos + 1
  /\ UNCHANGED <<flow, sourceConfig, spc, crashed, cloned, scanned, lockPresent,
                 fsLog, pydeps, manifest,
                 cwd>>

\* The loop is over: the script goes on.
DiscoveryDone ==
  /\ spc = "discovery"
  /\ ~crashed
  /\ lpos > Len(sourceConfig)
  /\ spc' = IF flow = "npm-to-pnpm" THEN "convertLockfile" ELSE "createPackageJson"
  /\ UNCHANGED <<flow, sourceConfig, lpos, crashed, cloned, scanned, lockPresent,
                 fsLog, pydeps, manifest,
                 cwd>>

\* npm-to-pnpm.md 286-289: package-lock.json is read (readFileSync throws
\* when it does not exist), converted and written as pnpm-lock.yaml.
LockfileConversion ==
  /\ spc = "convertLockfile"
  /\ ~crashed
  /\ IF lockPresent
     THEN /\ fsLog' = fsLog \o << <<"read", "package-lock.json">>,
                                  <<"write", "pnpm-lock.yaml">> >>
          /\ spc' = "done"
          /\ UNCHANGED crashed
     ELSE /\ crashed' = TRUE
          /\ UNCHANGED <<fsLog, spc>>
  /\ UNCHANGED <<flow, sourceConfig, lpos, cloned, scanned, lockPresent, pydeps,
                 manifest,
                 cwd>>

\* part_002 27-32: recipe.dependencies.python_packages is read (a TypeError
\* when the recipe has no dependencies key) and createPackageJson called.
CreatePackageJson ==
  /\ spc = "createPackageJson"
  /\ ~crashed
  /\ IF pydeps.present
     THEN /\ manifest' = createPackageJson(pydeps.python_packages)
          /\ spc' = "done"
          /\ UNCHANGED crashed
     ELSE /\ crashed' = TRUE
          /\ UNCHANGED <<manifest, spc>>
  /\ UNCHANGED <<flow, sourceConfig, lpos, cloned, scanned, lockPresent, fsLog,
                 pydeps,
                 cwd>>

NoDependencies == [present |-> FALSE, python_packages |-> <<>>]

InitSetupVars ==
  /\ flow \in {"npm-to-pnpm", "python-to-typescript"}
  /\ sourceConfig \in SeqsUpTo(LocationTypes, MaxLocations)
  /\ lpos = 1
  /\ spc = "discovery"
  /\ crashed = FALSE
  /\ cloned = <<>>
  /\ scanned = <<>>
  /\ lockPresent \in IF flow = "npm-to-pnpm" THEN BOOLEAN ELSE {FALSE}
  /\ fsLog = <<>>
  /\ pydeps \in IF flow = "npm-to-pnpm" THEN {NoDependencies}
                ELSE {NoDependencies}
                     \cup [present : {TRUE},
                           python_packages : SeqsUpTo(Packages, MaxPackages)]
  /\ manifest = NoManifest
  /\ cwd = <<>>

\* No setup script is running.
IdleSetup ==
  /\ flow = "none"
  /\ sourceConfig = <<>>
  /\ lpos = 1
  /\ spc = "idle"
  /\ crashed = FALSE
  /\ cloned = <<>>
  /\ scanned = <<>>
  /\ lockPresent = FALSE
  /\ fsLog = <<>>
  /\ pydeps = NoDependencies
  /\ manifest = NoManifest
  /\ cwd = <<>>

(***************************************************************************)
(* analyzePatterns (npm-to-pnpm.md 243-255)                                *)
(***************************************************************************)
MaxContent == 2   \* longest file content explored
MaxRegexes == 2   \* longest patterns array explored
MaxMatches == 3   \* "Found pattern" lines after which a run is cut off

AnalyzeChars == {"a", "b"}

\* The sources pattern.type can hold, as new RegExp(pattern.type, 'g') reads
\* them (246): a literal text (the empty text included), one character under
\* a star, or a source that is no regular expression, such as "(".
RegexSources ==
  {[kind |-> "literal", text |-> w] :
     w \in {<<>>, <<"a">>, <<"b">>, <<"a", "a">>}}
    \cup {[kind |-> "star", text |-> <<"a">>],
          [kind |-> "invalid", text |-> <<"(">>]}

\* Whether the literal text w occurs in s at the (0-based) index i.
LiteralAt(s, w, i) ==
  /\ i + Len(w) <= Len(s)
  /\ \A k \in 1..Len(w) : s[i + k] = w[k]

\* The length of the longest run of the character c in s from index i on.
RunFrom(s, c, i) ==
  CHOOSE r \in 0..(Len(s) - i) :
    /\ \A k \in 1..r : s[i + k] = c
    /\ (i + r = Len(s) \/ s[i + r + 1] # c)

\* regex.exec(fileContent) of a global regex (248): the search starts at
\* regex.lastIndex and the leftmost match from there is returned, with
\* lastIndex set to the end of the match; without a match the result is null
\* and lastIndex is reset to 0.  A match of length 0 leaves lastIndex where
\* the search started.
exec(re, s, li) ==
  IF re.kind = "star"
    THEN [matched |-> TRUE, index |-> li,
          lastIndex |-> li + RunFrom(s, re.text[1], li)]
    ELSE LET hits == {i \in li..Len(s) : LiteralAt(s, re.text, i)}
         IN  IF hits = {}
               THEN [matched |-> FALSE, index |-> 0, lastIndex |-> 0]
               ELSE LET i == CHOOSE h \in hits : \A g \in hits : h <= g
                    IN  [matched |-> TRUE, index |-> i,
                         lastIndex |-> i + Len(re.text)]

\* for (const pattern of patterns) with a pattern left: new RegExp compiles
\* pattern.type (246); a new regex starts at lastIndex 0.
ForEnter ==
  /\ apc = "for"
  /\ pidx <= Len(patternList)
  /\ patternList[pidx].kind # "invalid"
  /\ lastIndex' = 0
  /\ apc' = "while"
  /\ UNCHANGED <<fileContent, patternList, pidx, found>>

\* new RegExp throws a SyntaxError on a source that is no regular expression
\* (246); analyzePatterns catches nothing.
ForThrow ==
  /\ apc = "for"
  /\ pidx <= Len(patternList)
  /\ patternList[pidx].kind = "invalid"
  /\ apc' = "thrown"
  /\ UNCHANGED <<fileContent, patternList, pidx, lastIndex, found>>

\* The for loop has no pattern left: analyzePatterns returns (255).
ForExit ==
  /\ apc = "for"
  /\ pidx > Len(patternList)
  /\ apc' = "done"
  /\ UNCHANGED <<fileContent, patternList, pidx, lastIndex, found>>

\* while ((match = regex.exec(fileContent)) !== null) with a match: the two
\* lines are printed (249-250) and the loop tests again.
WhileMatch ==
  /\ apc = "while"
  /\ Len(found) < MaxMatches
  /\ LET m == exec(patternList[pidx], fileContent, lastIndex)
     IN  /\ m.matched
         /\ found' = Append(found, <<pidx, m.index>>)
         /\ lastIndex' = m.lastIndex
  /\ UNCHANGED <<fileContent, patternList, apc, pidx>>

\* regex.exec returns null: the while loop ends and the for loop goes on to
\* the next pattern.
WhileNull ==
  /\ apc = "while"
  /\ LET m == exec(patternList[pidx], fileContent, lastIndex)
     IN  /\ ~m.matched
         /\ lastIndex' = m.lastIndex
  /\ pidx' = pidx + 1
  /\ apc' = "for"
  /\ UNCHANGED <<fileContent, patternList, found>>

\* analyzePatterns(filePath, patterns) is entered (243-244).
InitAnalyzeVars ==
  /\ fileContent \in SeqsUpTo(AnalyzeChars, MaxContent)
  /\ patternList \in SeqsUpTo(RegexSources, MaxRegexes)
  /\ apc = "for"
  /\ pidx = 1
  /\ lastIndex = 0
  /\ found = <<>>

IdleAnalyze ==
  /\ fileContent = <<>>
  /\ patternList = <<>>
  /\ apc = "done"
  /\ pidx = 1
  /\ lastIndex = 0
  /\ found = <<>>

(***************************************************************************)
(* The specifications: each runs one part, the others stay idle.           *)
(***************************************************************************)
InitRetry ==
  InitRetryVars /\ IdleValidate /\ IdleTransform /\ IdleDispatch /\ IdleSetup
  /\ IdleAnalyze

NextRetry ==
  /\ \/ LoopEnter
     \/ LoopExit
     \/ MigrationStepOk
     \/ MigrationStepThrow
     \/ CatchError
  /\ UNCHANGED <<validateVars, transformVars, dispatchVars, setupVars,
                 analyzeVars>>

InitTransform ==
  InitTransformVars /\ IdleRetry /\ IdleValidate /\ IdleDispatch /\ IdleSetup
  /\ IdleAnalyze

NextTransform ==
  /\ \/ ApplyScriptRewrite
     \/ ApplyCiRewrite
     \/ ApplyConvertLockfile
  /\ UNCHANGED <<retryVars, validateVars, dispatchVars, setupVars,
                 analyzeVars>>

SpecTransform == InitTransform /\ [][NextTransform]_vars

SpecRetry == InitRetry /\ [][NextRetry]_vars

\* The event loop runs every continuation that is ready, and every awaited
\* call returns or throws: the retry loop keeps taking steps.  (Every step of
\* the loop changes its position, rpc or mpc.)
SpecRetryFair == SpecRetry /\ WF_<<rpc, mpc>>(NextRetry)

InitValidate ==
  InitValidateVars /\ IdleRetry /\ IdleTransform /\ IdleDispatch /\ IdleSetup
  /\ IdleAnalyze

NextValidate ==
  /\ \/ StartValidateMigration
     \/ TypeStage
     \/ PatternStage
     \/ PatternCheck
     \/ PatternReturn
     \/ TestStage
     \/ DepsStage
  /\ UNCHANGED <<retryVars, transformVars, dispatchVars, setupVars,
                 analyzeVars>>

SpecValidate == InitValidate /\ [][NextValidate]_vars

InitDispatch ==
  InitDispatchVars /\ IdleRetry /\ IdleValidate /\ IdleTransform /\ IdleSetup
  /\ IdleAnalyze

NextDispatch ==
  /\ \/ RunChecksStep
     \/ ExecuteStepAction
     \/ ValidateEnvironmentStep
     \/ DispatchReturn
  /\ UNCHANGED <<retryVars, validateVars, transformVars, setupVars,
                 analyzeVars>>

SpecDispatch == InitDispatch /\ [][NextDispatch]_vars

InitSetup ==
  InitSetupVars /\ IdleRetry /\ IdleValidate /\ IdleTransform /\ IdleDispatch
  /\ IdleAnalyze

NextSetup ==
  /\ \/ CloneOk
     \/ CloneFails
     \/ SkipLocation
     \/ DiscoveryDone
     \/ LockfileConversion
     \/ CreatePackageJson
  /\ UNCHANGED <<retryVars, validateVars, transformVars, dispatchVars,
                 analyzeVars>>

SpecSetup == InitSetup /\ [][NextSetup]_vars

InitAnalyze ==
  InitAnalyzeVars /\ IdleRetry /\ IdleValidate /\ IdleTransform /\ IdleDispatch
  /\ IdleSetup

NextAnalyze ==
  /\ \/ ForEnter
     \/ ForThrow
     \/ ForExit
     \/ WhileMatch
     \/ WhileNull
  /\ UNCHANGED <<retryVars, validateVars, transformVars, dispatchVars,
                 setupVars>>

SpecAnalyze == InitAnalyze /\ [][NextAnalyze]_vars

(***************************************************************************)
(* Claims about the retry loop and handleError, checked under SpecRetry    *)
(***************************************************************************)
\* Every error caught so far was one handleError could neither fix nor map.
AllEscalated == \A i \in DOMAIN outcomes : outcomes[i] = "Escalated"

\* C1: with maxRetries = 3, when every attempt fails with an error that
\* handleError cannot map, executeMigration is started exactly 3 times, never
\* a 4th time, and the run ends in the failure / manual-intervention state.
C1_RetryBound ==
  /\ maxRetries = 3
  /\ AllEscalated => attempts <= 3
  /\ (rpc = "done" /\ ~success /\ AllEscalated) =>
        /\ attempts = 3
        /\ Len(outcomes) = 3
        /\ final = "manual"

C1_Witness ==
  rpc = "done" /\ ~success /\ AllEscalated /\ attempts = 3 /\ final = "manual"

\* C2 as stated: once handleError has escalated an error, no further call of
\* executeMigration is started (the i-th caught error belongs to the i-th
\* attempt, so at most i attempts have been started).
C2_EscalationTerminal ==
  \A i \in DOMAIN outcomes : outcomes[i] = "Escalated" => attempts <= i

\* C2 amended: an escalation by handleError is not terminal.  The catch block
\* increments retries whatever handleError decided, and while retries is below
\* maxRetries the loop starts executeMigration again; the manual-intervention
\* state is reached only when maxRetries attempts have failed.
C2_EscalationRetried ==
  /\ Len(outcomes) = retries
  /\ \A i \in DOMAIN outcomes :
       (outcomes[i] = "Escalated" /\ i < maxRetries) =>
          \/ attempts > i
          \/ (rpc = "loop" /\ retries = i /\ ENABLED LoopEnter)
  /\ final = "manual" => (retries = maxRetries /\ attempts = maxRetries /\ ~success)

C2_Witness ==
  /\ Len(outcomes) >= 1
  /\ outcomes[1] = "Escalated"
  /\ attempts = 2
  /\ rpc = "exec"

\* What C3 as stated makes of an error: the built-in class decides alone.
ClaimedOutcome(message, maps) ==
  IF includes(message, LockfileInvalid) THEN "Resolved"
  ELSE IF \E i \in DOMAIN maps : includes(message, maps[i]) THEN "Mapped"
  ELSE "Escalated"

\* C3 as stated: an error whose message matches the built-in class gets the
\* built-in remedy as its one outcome; only otherwise are the mappings searched.
C3_BuiltInDecides ==
  lastHandled # NoError =>
    lastHandled.outcome.kind = ClaimedOutcome(lastHandled.message, mappings)

\* C3 amended: handleError of npm-to-pnpm.md gives every error exactly one
\* outcome: Resolved iff the message matches the built-in class and the
\* regeneration (pnpm import) succeeds; otherwise (no match, or the regeneration
\* threw) the first mapping in declared order whose pattern occurs in the
\* message is applied; otherwise the error is escalated.  No mapping is
\* consulted for an error the built-in class resolved.
C3_HandleErrorOrder ==
  lastHandled # NoError =>
    LET m == lastHandled.message
        o == lastHandled.outcome
        builtIn == includes(m, LockfileInvalid)
        hits == {i \in DOMAIN mappings : includes(m, mappings[i])}
    IN /\ o.kind \in {"Resolved", "Mapped", "Escalated"}
       /\ o.importTried = builtIn
       /\ o.kind = "Resolved" <=> (builtIn /\ lastHandled.importOk)
       /\ o.kind = "Resolved" => o.idx = 0
       /\ o.kind = "Mapped" <=>
            (~(builtIn /\ lastHandled.importOk) /\ hits # {})
       /\ o.kind = "Mapped" =>
            (o.idx \in hits /\ \A j \in hits : o.idx <= j)
       /\ o.kind = "Escalated" <=>
            (~(builtIn /\ lastHandled.importOk) /\ hits = {})

\* The regeneration failed and a later mapping also matches: the second of two
\* matching mappings is passed over for the first.
C3_Witness ==
  /\ lastHandled # NoError
  /\ includes(lastHandled.message, LockfileInvalid)
  /\ ~lastHandled.importOk
  /\ lastHandled.outcome.kind = "Mapped"
  /\ lastHandled.outcome.idx = 1
  /\ Len(mappings) = 2
  /\ mappings[1] # mappings[2]
  /\ includes(lastHandled.message, mappings[2])

(***************************************************************************)
(* Claims about RecipeValidator, checked under SpecValidate                *)
(***************************************************************************)
Failed(stage) == ret[stage] = Returned(FALSE)

Passed(stage) == ret[stage] = Returned(TRUE)

HasRun(stage) == \E k \in DOMAIN ran : ran[k] = stage

\* C4 as stated: no stage after the first failed stage runs.
C4_HaltAtFirstFailure ==
  \A i \in DOMAIN Stages : \A j \in DOMAIN Stages :
    (i < j /\ Failed(Stages[i])) => ~HasRun(Stages[j])

\* The generic line validateMigration adds for a failed stage.
StageLine(stage) ==
  CASE stage = "type" -> <<"Type validation failed">>
    [] stage = "pattern" -> <<"Pattern migration validation failed">>
    [] stage = "test" -> <<"Test coverage validation failed">>
    [] stage = "deps" -> <<"Dependency validation failed">>

RECURSIVE FailedLines(_)
FailedLines(i) ==
  IF i > Len(Stages) THEN <<>>
  ELSE (IF Failed(Stages[i]) THEN <<StageLine(Stages[i])>> ELSE <<>>)
       \o FailedLines(i + 1)

\* C4 amended: validateMigration runs its stages (type conversion, pattern
\* migration, test coverage, dependencies) strictly in declared order and a
\* stage that fails never keeps a later stage from running: for a sequence
\* [A, B, C] in which B fails, C is still executed.  A call that returns for a
\* structurally valid recipe has run all four stages, and its error list holds
\* one generic line for each failed stage, in stage order.
C4_AllStagesRun ==
  /\ \A k \in DOMAIN ran : k <= Len(Stages) /\ ran[k] = Stages[k]
  /\ \A i \in DOMAIN Stages :
       (Failed(Stages[i]) /\ i < Len(Stages)) =>
          \/ HasRun(Stages[i + 1])
          \/ vpc = Stages[i + 1]
  /\ (vpc = "returned" /\ results.recipeValid) =>
        /\ ran = Stages
        /\ results.errors = FailedLines(1)

\* B = type conversion fails, C = pattern migration and the rest still run.
C4_Witness ==
  /\ vpc = "returned"
  /\ Passed("recipe")
  /\ Failed("type")
  /\ Passed("pattern")
  /\ ran = Stages
  /\ results.errors = << <<"Type validation failed">> >>

\* The checks validatePatternMigration has to make for a recipe.
DeclaredChecks(patterns) ==
  {<<i, CheckedKeys[c]>> : <<i, c>> \in
     {x \in (1..Len(patterns)) \X (1..Len(CheckedKeys)) :
        CheckedKeys[x[2]] \in DOMAIN patterns[x[1]]}}

LoggedChecks(log) == {<<log[k].entry, log[k].check>> : k \in DOMAIN log}

PatternStageOver ==
  lastCheck.stage = "pattern" /\ vpc \in {"test", "thrown"}

\* C5: within the pattern-migration stage every declared check is executed;
\* neither the failure nor the thrown exception of one check prevents a sibling
\* check from running.
C5_AllChecksRun ==
  PatternStageOver =>
    LoggedChecks(lastCheck.log) = DeclaredChecks(recipe.code_patterns)

UnknownAt ==
  /\ dstate = "running"
  /\ dpos <= Len(ids)
  /\ ids[dpos] \notin KnownIds(dispatcher)

\* What a dispatcher leaves to its caller: how it ended, the commands it ran
\* and the files.  (All three return void; the console is not a result.)
Outcome == <<dstate, commands, files>>

\* C7 as stated: an identifier without a handler is recorded in the result:
\* handling it never leaves the result as if it had not been declared.
C7_UnknownRecorded ==
  [][UnknownAt => Outcome' # Outcome]_vars

UnknownLabel(d) ==
  CASE d = "runChecks" -> "Unknown check"
    [] d = "validateEnvironment" -> "Unknown validation rule"
    [] d = "executeStep" -> "Unknown action"

\* C7 amended: an identifier without a handler is not silent, but only the
\* console tells: handling it writes exactly one console warning that names
\* the identifier, runs no command, changes no file, throws nothing, and the
\* dispatcher goes on to the next identifier.
C7_UnknownOnlyWarns ==
  [][UnknownAt =>
       /\ console' = Append(console, <<"warn", UnknownLabel(dispatcher), ids[dpos]>>)
       /\ dpos' = dpos + 1
       /\ Outcome' = Outcome]_vars

\* An unknown identifier was handled, then a known one, and the dispatcher
\* returned.
C7_Witness ==
  /\ dstate = "returned"
  /\ Len(ids) = 2
  /\ ids[1] \notin KnownIds(dispatcher)
  /\ ids[2] \in KnownIds(dispatcher)
  /\ console[1] = <<"warn", UnknownLabel(dispatcher), ids[1]>>
  /\ Len(console) >= 2

(***************************************************************************)
(* Claims about the textual rewrites, checked under SpecTransform          *)
(***************************************************************************)
\* C8: the transform is idempotent: applying it to its own output yields
\* exactly that output again, transform(transform(x)) = transform(x).
C8_Idempotent ==
  passes >= 2 => content = previous

\* A transform in which a span that a mapping has put in is closed to the
\* mappings after it: every character carries a mark saying whether it was
\* produced by a replacement.
Marked(s, flag) == [i \in 1..Len(s) |-> <<s[i], flag>>]

Unmarked(ms) == [i \in 1..Len(ms) |-> ms[i][1]]

OpenMatchAt(ms, pat, i) ==
  /\ i + Len(pat) - 1 <= Len(ms)
  /\ \A k \in 1..Len(pat) : ms[i + k - 1] = <<pat[k], FALSE>>

RECURSIVE ClosedReplaceFrom(_, _, _, _)
ClosedReplaceFrom(ms, pat, rep, i) ==
  LET hits == {j \in i..Len(ms) : OpenMatchAt(ms, pat, j)} IN
  IF hits = {} THEN SubSeq(ms, i, Len(ms))
  ELSE LET j == CHOOSE h \in hits : \A k \in hits : h <= k
       IN SubSeq(ms, i, j - 1) \o Marked(rep, TRUE)
            \o ClosedReplaceFrom(ms, pat, rep, j + Len(pat))

RECURSIVE FirstMatchWinsFrom(_, _, _)
FirstMatchWinsFrom(ms, maps, k) ==
  IF k > Len(maps) THEN ms
  ELSE FirstMatchWinsFrom(ClosedReplaceFrom(ms, maps[k].pattern, maps[k].pnpm, 1),
                          maps, k + 1)

FirstMatchWins(text, maps) == Unmarked(FirstMatchWinsFrom(Marked(text, FALSE), maps, 1))

\* C9: with the mappings applied in declared order, a span that an earlier
\* mapping has matched and replaced is never matched or rewritten by a later
\* mapping of the same transform: the run yields what the mappings yield when
\* each replacement is closed to the mappings after it.
C9_FirstMatchWins ==
  passes >= 1 => content = FirstMatchWins(previous, tmappings)

\* The number of places where pat occurs in s.
Occurrences(s, pat) == Cardinality({i \in 1..Len(s) : MatchAt(s, pat, i)})

OnlyNpmRun == << [pattern |-> NpmRun, pnpm |-> Pnpm] >>

Violations(r) ==
  {<<"metadata.contact.email">> : x \in {r.email} \ {"dev-team@company.com"}}
  \cup {<<"metadata.priority">> : x \in {r.priority} \ {"low", "medium", "high"}}
  \cup {<<"source.code_patterns", i, key>> :
          <<i, key>> \in {ik \in (DOMAIN r.code_patterns) \X {"decorators", "type_hints",
                            "list_comprehensions", "generators", "async_await"} :
                  /\ ik[2] \in DOMAIN r.code_patterns[ik[1]]
                  /\ r.code_patterns[ik[1]][ik[2]] \notin {"common", "frequent", "occasional"}}}

\* C11: validateRecipeStructure returns true iff the recipe has no schema
\* violation, and when it returns false the recorded error list has one
\* entry for every violation present in the recipe: k violations, k errors.
C11_ValidationTotal ==
  ret["recipe"].returned =>
    /\ ret["recipe"].value <=> Violations(recipe) = {}
    /\ ~ret["recipe"].value =>
         /\ Len(validationErrors) = Cardinality(Violations(recipe))
         /\ \A i, j \in DOMAIN validationErrors :
              validationErrors[i] = validationErrors[j] => i = j
         /\ results.errors = validationErrors

\* A recipe with three independent violations was validated.
C11_Witness ==
  /\ ret["recipe"].returned
  /\ ~ret["recipe"].value
  /\ Cardinality(Violations(recipe)) = 3
  /\ Len(validationErrors) = 3

\* Some action of conversion_steps names a pattern that is a key of no
\* code_patterns entry.
DanglingStepPattern(r) ==
  \E p \in r.step_patterns :
    \A i \in DOMAIN r.code_patterns : p \notin DOMAIN r.code_patterns[i]

\* C12: if some conversion_steps action names a pattern that is not a key of
\* code_patterns, recipe validation reports a structural error and the recipe
\* is rejected before anything else runs.
C12_CrossReferenceRejected ==
  (ret["recipe"].returned /\ DanglingStepPattern(recipe)) =>
    /\ ~ret["recipe"].value
    /\ Len(validationErrors) > 0
    /\ ran = <<>>

\* C16: when validateRecipeStructure fails, validateMigration returns at once
\* with recipeValid = false, the structural errors as its error list and
\* every other flag false, and none of the type, pattern, test-coverage or
\* dependency validations is invoked.
C16_InvalidRecipeFatal ==
  (ret["recipe"].returned /\ ~ret["recipe"].value) =>
    /\ vpc = "returned"
    /\ ~results.recipeValid
    /\ ~results.typeCheckPassed
    /\ ~results.patternsPassed
    /\ ~results.testsPassed
    /\ ~results.dependenciesValid
    /\ results.errors = validationErrors
    /\ Len(results.errors) = Cardinality(Violations(recipe))
    /\ results.errors # <<>>
    /\ ran = <<>>
    /\ \A k \in 1..Len(Stages) : ~ret[Stages[k]].returned
    /\ lastCheck = NoCheck

\* validateMigration has returned for a recipe whose priority is not in the
\* enum.
C16_Witness ==
  /\ vpc = "returned"
  /\ calls = 1
  /\ recipe.priority = "urgent"
  /\ ~results.recipeValid
  /\ results.errors # <<>>

\* A detail message is exposed: it is in the result's error list or in what
\* getErrors returns.
Exposed(message) ==
  \/ \E i \in DOMAIN results.errors : results.errors[i] = message
  \/ \E i \in DOMAIN validationErrors : validationErrors[i] = message

\* C18: whenever a validation stage fails, the result of validateMigration
\* (and getErrors) exposes the detail message of every failing check of that
\* stage, not only a generic line.  (Stated for the type-conversion and the
\* dependency stage, right after the stage.)
C18_CompleteDiagnostics ==
  (lastCheck.stage \in {"type", "deps"} /\ vpc # "thrown") =>
    \A k \in DOMAIN lastCheck.errors : Exposed(lastCheck.errors[k])

\* C19: a recipe that differs from a valid one only by unknown keys still
\* validates, and each unknown key produces a warning entry.
C19_UnknownKeysWarned ==
  (ret["recipe"].returned /\ vpc = "type" /\ recipe.unknown # {}) =>
    /\ ret["recipe"].value
    /\ Len(validationErrors) + Len(results.errors) >= Cardinality(recipe.unknown)

(***************************************************************************)
(* Further claims about the retry loop, checked under SpecRetry            *)
(***************************************************************************)
\* The values a configuration might supply for the maximum retry count.
ConfiguredMaxRetries == 0..4

C20_TransformFailureNonFatal ==
  ~(rpc = "catch" /\ mpc = "convert")

(***************************************************************************)
(* Claims about discovery and the dependency manifest                      *)
(***************************************************************************)
\* The python packages of r that have no typescript_equivalent.
Unmapped(pkgs) == {i \in DOMAIN pkgs : pkgs[i].typescript_equivalent = "undefined"}

\* C13: every dependencies entry that has no target equivalent appears in the
\* report as an explicit 'unresolved' marker, and is not reported the same
\* way as a dependency whose equivalent exists but is missing from the target
\* manifest.  (Checked on what validateDependencies collected, under
\* SpecValidate.)
C13_UnresolvedReported ==
  (lastCheck.stage = "deps" /\ vpc = "returned") =>
    \A i \in Unmapped(recipe.dependencies.python_packages) :
      \E k \in DOMAIN lastCheck.errors :
        /\ lastCheck.errors[k][2] = recipe.dependencies.python_packages[i].name
        /\ lastCheck.errors[k][1] # "Missing TypeScript equivalent for Python package"

\* C14: if the clone of location i fails, the failure is recorded and every
\* later location is still retrieved and scanned: discovery never ends with a
\* git location it has not tried.
C14_DiscoveryIsolation ==
  (crashed /\ spc = "discovery") =>
    \A j \in (lpos + 1)..Len(sourceConfig) : sourceConfig[j] # "git"

\* C15: with zero discovery locations the run completes without any
\* exception, and no file is read or transformed.
C15_ZeroLocations ==
  Len(sourceConfig) = 0 => (~crashed /\ fsLog = <<>>)

(***************************************************************************)
(* Claims about the attempts of the retry loop                             *)
(***************************************************************************)
\* C21 as stated: after a failure in the final validation, the retry re-runs
\* only what failed: setup, analysis and the conversion of the files are not
\* executed again.
C21_RetryScoped ==
  [][(rpc = "loop" /\ retries > 0 /\ mpc = "validateAll" /\ rpc' = "exec") =>
       (mpc' = "validateAll" /\ fileIdx' = fileIdx)]_vars

\* C21 amended: a retry is a new call of executeMigration: whatever phase
\* failed, the next attempt starts again at setup, with no file converted.
C21_RetryRestartsRun ==
  [][(rpc = "loop" /\ rpc' = "exec") =>
       (mpc' = "setup" /\ fileIdx' = 0 /\ attempts' = attempts + 1)]_vars

\* The second attempt is converting the first file again.
C21_Witness ==
  /\ rpc = "exec"
  /\ attempts = 2
  /\ retries = 1
  /\ mpc = "convert"
  /\ fileIdx = 1

\* C22: within one attempt setup completes before the analysis starts, the
\* analysis before any conversion, and validateAll starts only after every
\* file has been converted.
C22_PhaseOrder ==
  /\ mpc \in {"setup", "analyze"} => fileIdx = 0
  /\ mpc \in {"convert", "validateConversion"} => fileIdx \in 1..lockfiles
  /\ mpc \in {"validateAll", "returned"} => fileIdx = lockfiles
  /\ success => (mpc = "returned" /\ fileIdx = lockfiles)

\* validateAll is running after two files have been converted.
C22_Witness ==
  /\ rpc = "exec"
  /\ mpc = "validateAll"
  /\ lockfiles = 2
  /\ fileIdx = 2

\* What holds of the retry loop in every state.
RetryInvariant ==
  /\ retries \in 0..maxRetries
  /\ retries = Len(outcomes)
  /\ attempts \in {retries, retries + 1}
  /\ success => (attempts = retries + 1 /\ rpc \in {"loop", "done"})
  /\ rpc = "exec" => (~success /\ attempts = retries + 1)
  /\ rpc = "done" =>
       /\ final \in {"success", "manual"}
       /\ final = "success" <=> success
       /\ final = "manual" <=> (retries = maxRetries /\ ~success)
  /\ rpc # "done" => final = "none"

\* C24: 0 <= retries <= maxRetries, retries is the number of failed attempts,
\* no attempt starts once one has succeeded, and the run always reaches
\* exactly one terminal outcome: success, or manual intervention with
\* retries = maxRetries and no successful attempt.
C24_RetryTerminates ==
  []RetryInvariant /\ <>(rpc = "done")

\* The third attempt succeeded.
C24_Witness ==
  /\ rpc = "done"
  /\ final = "success"
  /\ retries = 2
  /\ attempts = 3

(***************************************************************************)
(* Claims about the result and the error state of the validator            *)
(***************************************************************************)
\* C25: in the result of validateMigration each flag is true iff the
\* validation it names returned true, and the errors list is empty iff all
\* five flags are true.
C25_FlagsFaithful ==
  vpc = "returned" =>
    /\ results.recipeValid = ret["recipe"].value
    /\ results.typeCheckPassed = ret["type"].value
    /\ results.patternsPassed = ret["pattern"].value
    /\ results.testsPassed = ret["test"].value
    /\ results.dependenciesValid = ret["deps"].value
    /\ results.errors = <<>> <=>
         /\ results.recipeValid
         /\ results.typeCheckPassed
         /\ results.patternsPassed
         /\ results.testsPassed
         /\ results.dependenciesValid

\* C26: for a recipe that passes validateRecipeStructure, validateMigration
\* never throws: every failure is a false flag and an error entry.
C26_NeverThrows ==
  vpc # "thrown"

\* C27: getErrors() returns exactly the errors found by the most recent
\* call: right after validateTestCoverage it holds that call's message if it
\* failed and nothing if it passed.
C27_LatestErrorsOnly ==
  lastCheck.stage = "test" =>
    Len(validationErrors) = IF ret["test"].value THEN 0 ELSE 1

\* C30: validateRecipeStructure returns true for the recipe the repository
\* ships.
C30_ShippedRecipeAccepted ==
  (recipe = ShippedRecipe /\ ret["recipe"].returned) => ret["recipe"].value

(***************************************************************************)
(* Further claims about executeStep, the discovery loop and                *)
(* analyzePatterns                                                         *)
(***************************************************************************)
\* C23: if rewriting a file fails, the file is exactly what it was before the
\* transform started and the failure is recorded with status failed.
C23_FailedTransformRecorded ==
  [][(/\ dispatcher = "executeStep"
      /\ dstate = "running"
      /\ dstate' = "thrown"
      /\ ids[dpos] \in {"replace-npm-run-with-pnpm", "adjust-ci-scripts"}) =>
       /\ files' = files
       /\ \E k \in DOMAIN console' : console'[k][1] = "error"]_vars

\* C29: every location is cloned and scanned relative to the same base
\* working directory: while the discovery loop runs, the working directory
\* is the one the run started in.
C29_SameBaseDirectory ==
  spc = "discovery" => cwd = <<>>

\* C28: analyzePatterns finishes after finitely many matches for every file
\* content and every declared pattern, patterns that can match the empty
\* string included: the scan of a pattern moves on after each match, so it
\* reports no match of a pattern at the same index twice.
C28_ScanTerminates ==
  \A i, j \in DOMAIN found : found[i] = found[j] => i = j

=============================================================================
